---- MODULE Spec2Model ----
(***************************************************************************)
(* Guava-Server: the HTTP handlers of src/main.rs and the ContentService   *)
(* of src/service/content_service.rs, as a state machine.                  *)
(*                                                                         *)
(* The document store (collections "content" and "playlist") and the asset *)
(* directory "content/" are the environment: they are filled by an         *)
(* external process and the server only reads them.  Every await of a      *)
(* handler is one step of the request that runs it, so that the steps of   *)
(* concurrently served requests interleave.                                *)
(***************************************************************************)
EXTENDS Integers, Sequences, FiniteSets, TLC

VARIABLES
    state,      \* the shared State of tide::with_state (main.rs 105-110)
    content,    \* the documents of collection "content", in store order
    playlist,   \* the documents of collection "playlist", in store order
    files,      \* the asset directory: path -> file
    reqs,       \* the requests being served: slot -> request
    call        \* one direct call of generate_response (its arguments and result)

vars == <<state, content, playlist, files, reqs, call>>

----------------------------------------------------------------------------
(* Bounds of the model *)

MaxContent == 2      \* documents in collection "content"
MaxPlaylists == 2    \* documents in collection "playlist"
NumRequests == 2     \* requests served concurrently

----------------------------------------------------------------------------
(* Option<T> and Result<T, E> *)

None == <<>>
Some(x) == <<x>>
IsSome(o) == o # <<>>
Unwrap(o) == o[1]

Ok(x) == [tag |-> "Ok", v |-> <<x>>]
Err == [tag |-> "Err", v |-> <<>>]
IsOk(r) == r.tag = "Ok"
OkVal(r) == r.v[1]

----------------------------------------------------------------------------
(* serde_json::Value *)

JNull == [type |-> "null", value |-> <<>>]
JBool(b) == [type |-> "bool", value |-> b]
JString(s) == [type |-> "string", value |-> s]
JArray(s) == [type |-> "array", value |-> s]
JObject(m) == [type |-> "object", value |-> m]
\* serde_json::json!({}) : the object with no key
EmptyObject == JObject(<<>>)

\* The keys of a JSON object; no key for any other value.
Keys(j) == IF j.type = "object" THEN DOMAIN j.value ELSE {}

----------------------------------------------------------------------------
(* tide::StatusCode *)

StatusOk == 200
StatusNotFound == 404
StatusInternalServerError == 500

\* The status codes a caller can pass: one or more of each class.
StatusCodes == {100, 101, 200, 201, 204, 206, 301, 304, 400, 404, 500, 503}

\* StatusCode::is_success: the code is in the 2xx class.
is_success(status_code) == status_code >= 200 /\ status_code < 300

APPLICATION_JSON == "application/json"
BYTE_STREAM == "application/octet-stream"
PLAIN == "text/plain;charset=utf-8"

----------------------------------------------------------------------------
(* generate_response (main.rs 38-53) *)

\* Map::insert: the map with key k bound to v (an existing binding replaced).
Insert(m, k, v) == [x \in (DOMAIN m) \cup {k} |-> IF x = k THEN v ELSE m[x]]

unwrap_or(o, d) == IF IsSome(o) THEN Unwrap(o) ELSE d

\* A response: the status line, the Content-Type header (None when no header
\* is set) and the body.  The body of an envelope is the JSON text of the map;
\* serde_json::to_string is one-to-one on values, so the body is kept as the value.
Response(status, content_type, body) ==
    [status |-> status, content_type |-> content_type, body |-> body]

\* Faulty variant: success compares the status with 200 instead of its class.
generate_response_ok_only(status_code, result, error) ==
    LET m0 == Insert(<<>>, "success", JBool(status_code = StatusOk))
        m1 == IF is_success(status_code)
              THEN Insert(m0, "result", unwrap_or(result, EmptyObject))
              ELSE Insert(m0, "error",
                          JString(unwrap_or(error, "Internal Server Error")))
    IN  Response(status_code, Some(APPLICATION_JSON), JObject(m1))

\* Faulty variant: result and error are both inserted, whatever the status.
generate_response_both(status_code, result, error) ==
    LET m0 == Insert(<<>>, "success", JBool(is_success(status_code)))
        m1 == Insert(m0, "result", unwrap_or(result, EmptyObject))
        m2 == Insert(m1, "error", JString(unwrap_or(error, "Internal Server Error")))
    IN  Response(status_code, Some(APPLICATION_JSON), JObject(m2))

generate_response(status_code, result, error) ==
    LET m0 == Insert(<<>>, "success", JBool(is_success(status_code)))
        m1 == IF is_success(status_code)
              THEN Insert(m0, "result", unwrap_or(result, EmptyObject))
              ELSE Insert(m0, "error",
                          JString(unwrap_or(error, "Internal Server Error")))
    IN  Response(status_code, Some(APPLICATION_JSON), JObject(m1))

----------------------------------------------------------------------------
(* The document store and the asset directory *)

\* GuavaContentType (content_service.rs 9-15), by variant name.
GuavaContentType == {"None", "Sound", "Video"}

\* struct Content (content_service.rs 17-22).
Content(content_id, content_type, hash) ==
    [content_id |-> content_id, content_type |-> content_type, hash |-> hash]

\* The documents collection "content" may hold.  Nothing in the code keeps
\* content_id unique, so two documents may share it.
ContentUniverse ==
    { Content("c1", "Sound", "abcd1234"),
      Content("c2", "Video", "clip.json"),
      Content("c1", "None", "clip.json") }

\* struct PlaylistContent (main.rs 24-29).
PlaylistContent(name, content_type, content_id) ==
    [name |-> name, content_type |-> content_type, content_id |-> content_id]

\* struct GuavaPlaylist (main.rs 31-36).
GuavaPlaylist(name, identifier, entries) ==
    [name |-> name, identifier |-> identifier, content |-> entries]

PlaylistUniverse ==
    { GuavaPlaylist("Morning", "p1",
          Some(<< PlaylistContent("Song", "Sound", "c1"),
                  PlaylistContent("Clip", "Video", "c2") >>)),
      GuavaPlaylist("Evening", "p2", None) }

\* All sequences over S of length at most n.
SeqUpTo(S, n) == UNION { [1..k -> S] : k \in 0..n }

\* "content/".to_string().to_owned() + &hash.to_owned()  (main.rs 73)
AssetPath(hash) == "content/" \o hash

Hashes == { c.hash : c \in ContentUniverse }
AssetPaths == { AssetPath(h) : h \in Hashes }

\* A path of the asset directory names no file, a file that cannot be read,
\* or a readable file: its bytes and the media type its first bytes give away
\* (None when they give none away).
Absent == [kind |-> "absent", bytes |-> <<>>, magic |-> None]
Unreadable == [kind |-> "unreadable", bytes |-> <<>>, magic |-> None]
File(bytes, magic) == [kind |-> "file", bytes |-> bytes, magic |-> magic]

FilesAt(path) ==
    IF path = AssetPath("abcd1234")
    THEN { Absent, Unreadable,
           File(<<73, 68, 51>>, Some("audio/mpeg")), File(<<0, 1>>, None) }
    ELSE { Absent, Unreadable,
           File(<<123, 125>>, None), File(<<0, 0, 0, 24>>, Some("video/mp4")) }

\* The extension of a path of the asset directory ("" when it has none).
Extension(path) == IF path = AssetPath("clip.json") THEN "json" ELSE ""

----------------------------------------------------------------------------
(* Requests *)

\* The paths main registers (main.rs 118-125) and one it does not.
Routes ==
    { "/", "/content/:id/hash", "/content/:id/download", "/playlists",
      "/playlist/:identifier/content" }

HasParam(route) == route \in { "/content/:id/hash", "/content/:id/download",
                               "/playlist/:identifier/content" }

\* Values of the path parameter: content and playlist identifiers, and one
\* that names nothing.
Params == { "c1", "c2", "p1", "unknown" }

\* The endpoint tide dispatches a path to (main.rs 118-125); a path with no
\* registered endpoint is answered by tide itself.
Endpoint(route) ==
    CASE route = "/" -> "index"
      [] route = "/content/:id/hash" -> "get_hash_of_content"
      [] route = "/content/:id/download" -> "download_asset"
      [] route = "/playlists" -> "list_playlist"
      [] OTHER -> "not_found"

Idle ==
    [pc |-> "idle", route |-> "", param |-> "", queries |-> 0,
     found |-> None, lookup |-> None, read |-> <<>>, stream_failed |-> FALSE,
     playlists |-> None, file |-> None, response |-> None]

State == [db |-> "guava", content_service |-> [db |-> "guava"]]

NoCall == [status |-> 0, result |-> None, error |-> None, response |-> None]

----------------------------------------------------------------------------
(* ContentService::get_hash_from_id (content_service.rs 31-45) *)

Min(S) == CHOOSE x \in S : \A y \in S : x <= y

\* The document find_one retrieves with the filter { "content_id": id }: the
\* first in store order that matches, None when none matches.
FirstMatch(id) ==
    LET hits == { i \in 1..Len(content) : content[i].content_id = id }
    IN  IF hits = {} THEN None ELSE Some(content[Min(hits)])

\* collection.find_one(doc! { "content_id": id }, None).await : the store
\* answers, or the query fails (store unreachable, document not decodable).
find_one(id) == { Ok(FirstMatch(id)), Err }

\* Faulty variant: no matching document gives Ok of the empty string.
get_hash_from_id_empty(found) ==
    IF IsOk(found)
    THEN IF IsSome(OkVal(found)) THEN Ok(Unwrap(OkVal(found)).hash) ELSE Ok("")
    ELSE Err

\* The match on the result of find_one.
get_hash_from_id(found) ==
    IF IsOk(found)
    THEN IF IsSome(OkVal(found)) THEN Ok(Unwrap(OkVal(found)).hash) ELSE Err
    ELSE Err

----------------------------------------------------------------------------
(* get_hash_of_content (main.rs 82-89) *)

\* Faulty variant: a failed lookup is answered 500 with the default message.
get_hash_of_content_response_500(lookup) ==
    IF IsOk(lookup)
    THEN generate_response(StatusOk, Some(JString(OkVal(lookup))), None)
    ELSE generate_response(StatusInternalServerError, None, None)

get_hash_of_content_response(lookup) ==
    IF IsOk(lookup)
    THEN generate_response(StatusOk, Some(JString(OkVal(lookup))), None)
    ELSE generate_response(StatusNotFound, None, Some("content not found"))

----------------------------------------------------------------------------
(* download_asset (main.rs 68-80) *)

\* The media type Body::from_file gives the body: the one the first bytes of
\* the file give away, else the one of the extension of the path, else
\* application/octet-stream.
guess_ext(path) == IF Extension(path) = "json" THEN Some(APPLICATION_JSON) ELSE None

FileMime(path) ==
    IF IsSome(files[path].magic) THEN Unwrap(files[path].magic)
    ELSE unwrap_or(guess_ext(path), BYTE_STREAM)

\* Body::from_file(path).await : the body of a file that can be opened and
\* read, an error for any other path.
from_file(path) ==
    IF path \in DOMAIN files /\ files[path].kind = "file"
    THEN Ok([mime |-> FileMime(path), bytes |-> files[path].bytes])
    ELSE Err

\* A body of raw bytes.
Raw(bytes) == [type |-> "bytes", value |-> bytes]

\* Response::builder(StatusCode::Ok).body(body).build(): the Content-Type is
\* the media type of the body.
BodyResponse(status, body) == Response(status, Some(body.mime), Raw(body.bytes))

FileNotFound == generate_response(StatusNotFound, None, Some("file not found"))

\* Faulty variant: a file that cannot be opened is answered 200 with no bytes.
download_asset_response_empty(lookup, file) ==
    IF IsOk(lookup)
    THEN IF IsOk(Unwrap(file))
         THEN BodyResponse(StatusOk, OkVal(Unwrap(file)))
         ELSE BodyResponse(StatusOk, [mime |-> BYTE_STREAM, bytes |-> <<>>])
    ELSE FileNotFound

\* The two matches of download_asset; file is None when the hash lookup
\* failed and no file was opened.
download_asset_response(lookup, file) ==
    IF IsOk(lookup)
    THEN IF IsOk(Unwrap(file))
         THEN BodyResponse(StatusOk, OkVal(Unwrap(file)))
         ELSE FileNotFound
    ELSE FileNotFound

----------------------------------------------------------------------------
(* list_playlist (main.rs 58-66) *)

\* serde_json::value::to_value of a PlaylistContent (derive(Serialize)).
PlaylistContentValue(e) ==
    JObject([name |-> JString(e.name),
             content_type |-> JString(e.content_type),
             content_id |-> JString(e.content_id)])

\* serde_json::value::to_value of a GuavaPlaylist (derive(Serialize)): every
\* field of the struct is a key, an Option that is None is null.
GuavaPlaylistValue(p) ==
    JObject([name |-> JString(p.name),
             identifier |-> JString(p.identifier),
             content |-> IF IsSome(p.content)
                         THEN JArray([i \in 1..Len(Unwrap(p.content)) |->
                                         PlaylistContentValue(Unwrap(p.content)[i])])
                         ELSE JNull])

to_value(playlists) ==
    JArray([i \in 1..Len(playlists) |-> GuavaPlaylistValue(playlists[i])])

\* results.try_collect().await.unwrap_or_else(|_| vec![]) when the stream
\* ends in an error after the documents `read`.
\* Faulty variant: the documents read before the error are kept.
unwrap_or_else_read(read) == read
unwrap_or_else(read) == <<>>

list_playlist_response(playlists) ==
    generate_response(StatusOk, Some(to_value(playlists)), None)

----------------------------------------------------------------------------
(* Responses of tide itself *)

EmptyBody == [type |-> "empty", value |-> <<>>]

\* What tide answers when an endpoint returns Err (the `?` of main.rs 62):
\* the status of the error, 500, with no body.
ErrorResponse == Response(StatusInternalServerError, None, EmptyBody)

\* What tide answers on a path no endpoint is registered for.
NotFoundResponse == Response(StatusNotFound, None, EmptyBody)

\* The endpoint of "/" (main.rs 118): the string "OK".
IndexResponse == Response(StatusOk, Some(PLAIN), [type |-> "text", value |-> "OK"])

----------------------------------------------------------------------------
(* The steps of a request *)

store == <<state, content, playlist, files>>

\* Request r becomes q; nothing else changes.
Step(r, q) ==
    /\ reqs' = [reqs EXCEPT ![r] = q]
    /\ UNCHANGED <<store, call>>

Done(q, response) == [q EXCEPT !.pc = "done", !.response = Some(response)]

\* A request arrives and tide dispatches it (main.rs 118-127).
Arrive(r) ==
    /\ reqs[r].pc = "idle"
    /\ \E route \in Routes :
       \E param \in IF HasParam(route) THEN Params ELSE {""} :
          Step(r, [reqs[r] EXCEPT !.pc = "start", !.route = route, !.param = param])

\* GET / (main.rs 118).
Index(r) ==
    /\ reqs[r].pc = "start"
    /\ Endpoint(reqs[r].route) = "index"
    /\ Step(r, Done(reqs[r], IndexResponse))

\* A path with no endpoint.
NotFound(r) ==
    /\ reqs[r].pc = "start"
    /\ Endpoint(reqs[r].route) = "not_found"
    /\ Step(r, Done(reqs[r], NotFoundResponse))

\* list_playlist, main.rs 62: playlist_collection.find(None, None).await?
\* The query gives a cursor, or fails and `?` returns the error to tide.
ListFind(r) ==
    /\ reqs[r].pc = "start"
    /\ Endpoint(reqs[r].route) = "list_playlist"
    /\ \E ok \in BOOLEAN :
          LET q == [reqs[r] EXCEPT !.queries = @ + 1,
                                   !.found = Some(IF ok THEN Ok(None) ELSE Err)]
          IN  IF ok THEN Step(r, [q EXCEPT !.pc = "cursor"])
                    ELSE Step(r, Done(q, ErrorResponse))

\* list_playlist, main.rs 63: try_collect takes the next document of the cursor.
CollectNext(r) ==
    /\ reqs[r].pc = "cursor"
    /\ Len(reqs[r].read) < Len(playlist)
    /\ Step(r, [reqs[r] EXCEPT
                  !.read = Append(@, playlist[Len(reqs[r].read) + 1])])

\* list_playlist, main.rs 63: the cursor is exhausted, try_collect is Ok.
CollectEnd(r) ==
    /\ reqs[r].pc = "cursor"
    /\ Len(reqs[r].read) = Len(playlist)
    /\ Step(r, [reqs[r] EXCEPT !.pc = "collected",
                               !.playlists = Some(reqs[r].read)])

\* list_playlist, main.rs 63: the cursor yields an error, try_collect is Err
\* and unwrap_or_else gives the vector of the closure.
CollectError(r) ==
    /\ reqs[r].pc = "cursor"
    /\ Step(r, [reqs[r] EXCEPT !.pc = "collected", !.stream_failed = TRUE,
                               !.playlists = Some(unwrap_or_else(reqs[r].read))])

\* list_playlist, main.rs 65.
ListRespond(r) ==
    /\ reqs[r].pc = "collected"
    /\ Step(r, Done(reqs[r], list_playlist_response(Unwrap(reqs[r].playlists))))

\* Faulty variant: a failed find_one is issued once more.
GetHashFromIdRetry(r) ==
    /\ reqs[r].pc = "start"
    /\ Endpoint(reqs[r].route) \in {"get_hash_of_content", "download_asset"}
    /\ \E found \in find_one(reqs[r].param) :
          IF IsOk(found) \/ reqs[r].queries >= 1
          THEN Step(r, [reqs[r] EXCEPT !.pc = "got", !.queries = @ + 1,
                                       !.found = Some(found),
                                       !.lookup = Some(get_hash_from_id(found))])
          ELSE Step(r, [reqs[r] EXCEPT !.queries = @ + 1])

\* get_hash_of_content and download_asset, main.rs 85 and 71:
\* content_service.get_hash_from_id(req.param("id")).await
GetHashFromId(r) ==
    /\ reqs[r].pc = "start"
    /\ Endpoint(reqs[r].route) \in {"get_hash_of_content", "download_asset"}
    /\ \E found \in find_one(reqs[r].param) :
          Step(r, [reqs[r] EXCEPT !.pc = "got", !.queries = @ + 1,
                                  !.found = Some(found),
                                  !.lookup = Some(get_hash_from_id(found))])

\* get_hash_of_content, main.rs 86-87.
HashRespond(r) ==
    /\ reqs[r].pc = "got"
    /\ Endpoint(reqs[r].route) = "get_hash_of_content"
    /\ Step(r, Done(reqs[r], get_hash_of_content_response(Unwrap(reqs[r].lookup))))

\* download_asset, main.rs 73: Body::from_file(content/ + hash).await
OpenFile(r) ==
    /\ reqs[r].pc = "got"
    /\ Endpoint(reqs[r].route) = "download_asset"
    /\ IsOk(Unwrap(reqs[r].lookup))
    /\ Step(r, [reqs[r] EXCEPT
                  !.pc = "opened",
                  !.file = Some(from_file(AssetPath(OkVal(Unwrap(reqs[r].lookup)))))])

\* download_asset, main.rs 74-75 and 78.
DownloadRespond(r) ==
    /\ Endpoint(reqs[r].route) = "download_asset"
    /\ \/ reqs[r].pc = "opened"
       \/ reqs[r].pc = "got" /\ ~IsOk(Unwrap(reqs[r].lookup))
    /\ Step(r, Done(reqs[r],
                    download_asset_response(Unwrap(reqs[r].lookup), reqs[r].file)))

----------------------------------------------------------------------------
(* Specifications *)

\* Any contents of the store and of the asset directory.
InitStore ==
    /\ state = State
    /\ content \in SeqUpTo(ContentUniverse, MaxContent)
    /\ playlist \in SeqUpTo(PlaylistUniverse, MaxPlaylists)
    /\ files \in { f \in [AssetPaths -> UNION { FilesAt(p) : p \in AssetPaths }] :
                     \A p \in AssetPaths : f[p] \in FilesAt(p) }

\* One request served, over any store.
Init ==
    /\ InitStore
    /\ reqs = [r \in {1} |-> Idle]
    /\ call = NoCall

Next ==
    \/ \E r \in DOMAIN reqs : Arrive(r)
    \/ \E r \in DOMAIN reqs : Index(r)
    \/ \E r \in DOMAIN reqs : NotFound(r)
    \/ \E r \in DOMAIN reqs : ListFind(r)
    \/ \E r \in DOMAIN reqs : CollectNext(r)
    \/ \E r \in DOMAIN reqs : CollectEnd(r)
    \/ \E r \in DOMAIN reqs : CollectError(r)
    \/ \E r \in DOMAIN reqs : ListRespond(r)
    \/ \E r \in DOMAIN reqs : GetHashFromId(r)
    \/ \E r \in DOMAIN reqs : HashRespond(r)
    \/ \E r \in DOMAIN reqs : OpenFile(r)
    \/ \E r \in DOMAIN reqs : DownloadRespond(r)

Spec == Init /\ [][Next]_vars

\* NumRequests requests served concurrently, over a store that holds two
\* documents of each collection.
InitConcurrent ==
    /\ state = State
    /\ content = << Content("c1", "Sound", "abcd1234"), Content("c2", "Video", "clip.json") >>
    /\ playlist = << GuavaPlaylist("Evening", "p2", None),
                     GuavaPlaylist("Morning", "p1",
                                   Some(<< PlaylistContent("Song", "Sound", "c1") >>)) >>
    /\ files \in { f \in [AssetPaths -> { Absent, File(<<0, 1>>, None) }] :
                     f[AssetPath("clip.json")] = Absent }
    /\ reqs = [r \in 1..NumRequests |-> Idle]
    /\ call = NoCall

SpecConcurrent == InitConcurrent /\ [][Next]_vars

\* generate_response called on its own, with any status and arguments.
Results ==
    { None, Some(EmptyObject), Some(JNull), Some(JString("abcd1234")),
      Some(to_value(<< GuavaPlaylist("Evening", "p2", None) >>)) }
Errors == { None, Some("file not found"), Some("content not found"), Some("") }

InitEnvelope ==
    /\ state = State
    /\ content = <<>>
    /\ playlist = <<>>
    /\ files = [p \in AssetPaths |-> Absent]
    /\ reqs = <<>>
    /\ call \in [status : StatusCodes, result : Results, error : Errors,
                 response : {None}]

CallGenerateResponse ==
    /\ call.response = None
    /\ call' = [call EXCEPT !.response =
                   Some(generate_response(call.status, call.result, call.error))]
    /\ UNCHANGED <<store, reqs>>

NextEnvelope == CallGenerateResponse

SpecEnvelope == InitEnvelope /\ [][NextEnvelope]_vars

----------------------------------------------------------------------------
(* Properties of generate_response, under SpecEnvelope *)

Called == IsSome(call.response)
Returned == Unwrap(call.response)

\* C1: for every status code and every combination of present or absent
\* result and error, the success field of the body is true exactly when the
\* status of the response is in the 2xx class.
C1_SuccessIsStatusClass ==
    Called =>
        /\ Returned.status = call.status
        /\ "success" \in Keys(Returned.body)
        /\ Returned.body.value.success = JBool(Returned.status \in 200..299)

C1_Witness ==
    /\ Called
    /\ call.status = 204
    /\ IsSome(call.error)
    /\ Returned.body.value.success = JBool(TRUE)

\* C2: the body has exactly one of the keys result and error: for a 2xx
\* status, result is the payload given, or {} when none is given, and there is
\* no error key; for any other status, error is the message given, or
\* "Internal Server Error" when none is given, and there is no result key.
C2_ResultOrError ==
    Called =>
        IF call.status \in 200..299
        THEN /\ Keys(Returned.body) = {"success", "result"}
             /\ Returned.body.value.result =
                   (IF call.result = None THEN JObject(<<>>) ELSE call.result[1])
        ELSE /\ Keys(Returned.body) = {"success", "error"}
             /\ Returned.body.value.error =
                   JString(IF call.error = None THEN "Internal Server Error"
                                                ELSE call.error[1])

C2_Witness ==
    /\ Called
    /\ call.status = 404
    /\ IsSome(call.result)
    /\ call.error = None
    /\ "result" \notin Keys(Returned.body)
    /\ Returned.body.value.error = JString("Internal Server Error")

----------------------------------------------------------------------------
(* Properties of the handlers, under Spec *)

Slots == DOMAIN reqs
Answered(r) == reqs[r].pc = "done"
Answer(r) == Unwrap(reqs[r].response)
Serves(r, endpoint) == reqs[r].pc # "idle" /\ Endpoint(reqs[r].route) = endpoint

\* The documents of collection "content" whose content_id is id.
Matching(id) == { content[i] : i \in { j \in 1..Len(content) : content[j].content_id = id } }

\* C3: get_hash_from_id(c) returns Ok(h) only when the store lookup succeeded
\* and returned a record whose content_id is c, and h is the hash of that
\* record; when no record matches c it returns Err, never Ok of some string.
C3_HashOfMatchingRecord ==
    \A r \in Slots :
        IsSome(reqs[r].lookup) =>
            LET c == reqs[r].param
                found == Unwrap(reqs[r].found)
                result == Unwrap(reqs[r].lookup)
            IN  /\ IsOk(result) =>
                      /\ IsOk(found)
                      /\ \E rec \in Matching(c) :
                            OkVal(found) = Some(rec) /\ OkVal(result) = rec.hash
                /\ Matching(c) = {} => result = Err

C3_Witness ==
    \E r \in Slots :
        /\ reqs[r].param = "c1"
        /\ Cardinality(Matching("c1")) = 2
        /\ reqs[r].lookup = Some(Ok("abcd1234"))

\* C4: no element of the result array of the playlist listing carries a
\* content key, whatever the stored content list of the playlist.
C4_ListingOmitsContent ==
    \A r \in Slots :
        Answered(r) /\ Serves(r, "list_playlist") /\ Answer(r).status = 200 =>
            LET result == Answer(r).body.value.result
            IN  \A i \in DOMAIN result.value : "content" \notin Keys(result.value[i])

\* The playlists whose identifier is id.
Identified(id) ==
    { playlist[i] : i \in { j \in 1..Len(playlist) : playlist[j].identifier = id } }

\* C5: GET /playlist/:identifier/content answers 200 with the full document
\* of the playlist of that identifier when there is one, 204 with success
\* true and result {} when there is none, and 500 when the query fails.
C5_PlaylistByIdentifier ==
    \A r \in Slots :
        Answered(r) /\ reqs[r].route = "/playlist/:identifier/content" =>
            \/ /\ Answer(r).status = 200
               /\ \E p \in Identified(reqs[r].param) :
                     Answer(r).body.value.result = GuavaPlaylistValue(p)
            \/ /\ Answer(r).status = 204
               /\ Identified(reqs[r].param) = {}
               /\ Answer(r).body.value.success = JBool(TRUE)
               /\ Answer(r).body.value.result = JObject(<<>>)
            \/ Answer(r).status = 500

\* The envelope of a failure, as it is sent.
Failure(status, message) ==
    [status |-> status, content_type |-> <<"application/json">>,
     body |-> JObject([success |-> JBool(FALSE), error |-> JString(message)])]

\* The envelope of a success, as it is sent.
Success(status, payload) ==
    [status |-> status, content_type |-> <<"application/json">>,
     body |-> JObject([success |-> JBool(TRUE), result |-> payload])]

\* C6: GET /content/:id/hash answers 200 with success true and the hash as
\* result when the lookup succeeds; when no record matches and when the store
\* lookup fails it answers the same 404 envelope, error "content not found";
\* it never answers 500, nor 200 without a hash.
C6_HashOrNotFound ==
    \A r \in Slots :
        Answered(r) /\ Serves(r, "get_hash_of_content") =>
            LET found == Unwrap(reqs[r].found)
            IN  IF IsOk(found) /\ Matching(reqs[r].param) # {}
                THEN \E rec \in Matching(reqs[r].param) :
                        Answer(r) = Success(200, JString(rec.hash))
                ELSE Answer(r) = Failure(404, "content not found")

C6_Witness ==
    \E r \in Slots :
        /\ Answered(r) /\ Serves(r, "get_hash_of_content")
        /\ Matching(reqs[r].param) # {}
        /\ reqs[r].found = Some(Err)
        /\ Answer(r).status = 404

\* The file a download of request r serves: the one at content/ + the hash of
\* the record found, when there is one and it can be opened.
Resolved(r) == IsOk(Unwrap(reqs[r].found)) /\ IsSome(OkVal(Unwrap(reqs[r].found)))
PathOf(r) == "content/" \o Unwrap(OkVal(Unwrap(reqs[r].found))).hash
Openable(r) == Resolved(r) /\ files[PathOf(r)].kind = "file"

\* C7 as stated: GET /content/:id/download answers 200 with the raw bytes of
\* the file, never with Content-Type application/json, exactly when the
\* identifier resolves to a hash and the file can be opened; in every other
\* case it answers the 404 envelope, error "file not found".
C7_DownloadNeverJson ==
    \A r \in Slots :
        Answered(r) /\ Serves(r, "download_asset") =>
            IF Openable(r)
            THEN /\ Answer(r).status = 200
                 /\ Answer(r).body = Raw(files[PathOf(r)].bytes)
                 /\ Answer(r).content_type # <<"application/json">>
            ELSE Answer(r) = Failure(404, "file not found")

\* C7 as amended: the same, with the Content-Type the one Body::from_file
\* derives from the file: the type its first bytes give away, else
\* application/json for a path that ends in .json, else
\* application/octet-stream; it is never set by the envelope.
C7_DownloadOrNotFound ==
    \A r \in Slots :
        Answered(r) /\ Serves(r, "download_asset") =>
            IF Openable(r)
            THEN /\ Answer(r).status = 200
                 /\ Answer(r).body = Raw(files[PathOf(r)].bytes)
                 /\ Answer(r).content_type =
                       IF files[PathOf(r)].magic # <<>> THEN files[PathOf(r)].magic
                       ELSE IF PathOf(r) = "content/clip.json"
                            THEN <<"application/json">>
                            ELSE <<"application/octet-stream">>
            ELSE Answer(r) = Failure(404, "file not found")

C7_Witness ==
    \E r \in Slots :
        /\ Answered(r) /\ Serves(r, "download_asset")
        /\ Openable(r)
        /\ Answer(r).status = 200
        /\ Answer(r).body = Raw(<<123, 125>>)
        /\ Answer(r).content_type = <<"application/json">>

\* C8 as stated: when the store returns k playlists and then a read error,
\* the listing answers 200 with exactly those k playlists, in the order read.
C8_PartialListing ==
    \A r \in Slots :
        Answered(r) /\ Serves(r, "list_playlist") /\ reqs[r].stream_failed =>
            Answer(r) = Success(200, to_value(reqs[r].read))

\* C8 as amended: when the store returns k playlists and then a read error,
\* the listing answers 200 with an empty result array, whatever k: the
\* playlists already read are dropped.
C8_EmptyListingOnReadError ==
    \A r \in Slots :
        Answered(r) /\ Serves(r, "list_playlist") /\ reqs[r].stream_failed =>
            Answer(r) = Success(200, JArray(<<>>))

C8_Witness ==
    \E r \in Slots :
        /\ Answered(r) /\ Serves(r, "list_playlist")
        /\ reqs[r].stream_failed
        /\ Len(reqs[r].read) = 2
        /\ reqs[r].read = playlist
        /\ Answer(r).body.value.result = JArray(<<>>)

\* A response built by the envelope.
IsEnvelope(resp) ==
    /\ resp.content_type = <<"application/json">>
    /\ resp.body.type = "object"
    /\ "success" \in Keys(resp.body)
    /\ resp.body.value.success = JBool(resp.status \in 200..299)
    /\ \/ Keys(resp.body) = {"success", "result"}
       \/ Keys(resp.body) = {"success", "error"}

\* C9: every response of the listing, the hash lookup and the download is
\* built by the envelope, but for the download of a file that could be
\* opened; a failure of the listing query is answered by an envelope with
\* success false.
C9_EveryResponseIsEnvelope ==
    \A r \in Slots :
        /\ Answered(r)
        /\ Endpoint(reqs[r].route) \in {"list_playlist", "get_hash_of_content", "download_asset"}
        => \/ Serves(r, "download_asset") /\ Openable(r) /\ Answer(r).status = 200
           \/ IsEnvelope(Answer(r))

----------------------------------------------------------------------------
(* Properties of concurrent requests, under SpecConcurrent *)

\* What request q is answered when it is served alone over the store and the
\* asset directory as they are, the store failing where it failed for q.
Alone(q) ==
    LET e == Endpoint(q.route)
        found == IF IsOk(Unwrap(q.found)) THEN Ok(FirstMatch(q.param)) ELSE Err
        hash == get_hash_from_id(found)
    IN  CASE e = "index" -> IndexResponse
          [] e = "not_found" -> NotFoundResponse
          [] e = "list_playlist" ->
                IF ~IsOk(Unwrap(q.found)) THEN ErrorResponse
                ELSE IF q.stream_failed THEN list_playlist_response(<<>>)
                ELSE list_playlist_response(playlist)
          [] e = "get_hash_of_content" -> get_hash_of_content_response(hash)
          [] e = "download_asset" ->
                download_asset_response(hash,
                    IF IsOk(hash) THEN Some(from_file(AssetPath(OkVal(hash)))) ELSE None)

Queried(e) == e \in {"list_playlist", "get_hash_of_content", "download_asset"}

\* What holds of every request in every state: it has issued at most one
\* store query, exactly one once answered, and its answer is the one it
\* would get alone.
Isolated ==
    \A r \in Slots :
        /\ reqs[r].queries <= 1
        /\ Answered(r) =>
              /\ Queried(Endpoint(reqs[r].route)) => reqs[r].queries = 1
              /\ Answer(r) = Alone(reqs[r])

\* C10: for any interleaving of the steps of concurrent requests, no step
\* writes the shared State, the store or the asset files; every request is
\* answered as if it ran alone, and issues its store query once, with no
\* retry after a failure.
C10_RequestsAreIndependent ==
    /\ []Isolated
    /\ [][ /\ state' = state /\ content' = content
           /\ playlist' = playlist /\ files' = files ]_vars

C10_Witness ==
    /\ Slots = 1..NumRequests
    /\ \A r \in Slots : Answered(r)
    /\ \E r \in Slots :
          /\ Serves(r, "download_asset") /\ Answer(r).status = 200
          /\ reqs[r].queries = 1
    /\ \E r \in Slots :
          /\ Serves(r, "get_hash_of_content") /\ reqs[r].found = Some(Err)
          /\ reqs[r].queries = 1

====
